---- MODULE Spec2Model ----
(***************************************************************************)
(* Model of the real-time news daemon of alpha-skill                       *)
(* (scripts/monitoring/realtime_news.py), of its control surface           *)
(* (cli.py news-daemon) and of the consumer of its alert queue             *)
(* (scripts/monitoring/news_monitor.py).                                   *)
(*                                                                         *)
(* Processes: the daemon processes (one per pid), each an asyncio event    *)
(* loop running three adapter tasks; the consumer process calling          *)
(* pop_pending_alerts; a reader process (news-daemon status / alerts); the *)
(* start commands.  They share three files: pending.json, seen_ids.json    *)
(* and news_daemon.pid.                                                    *)
(*                                                                         *)
(* Granularity.  Code of one daemon between two awaits runs without        *)
(* interleaving of the daemon's other tasks (var owner), but other         *)
(* processes do interleave with it at every file operation.                *)
(* Path.write_text opens the file with truncation and writes afterwards:   *)
(* a write of pending.json or of the pid file is two steps, and the file   *)
(* is unparseable between them.                                            *)
(***************************************************************************)
EXTENDS Integers, Sequences, FiniteSets, TLC

\* ---------------------------------------------------------------- bounds
\* Capacity of the pending queue (alerts[-100:] in _save_pending), scaled:
\* the model checks the queue logic at this capacity.
PendingCap == 2
\* Capacity of the persisted seen list ([-5000:] in _load_seen and
\* _save_seen), scaled.
SeenCap == 2
\* Fingerprints are 1..MaxFp; their order is the order sorted() gives the ids.
MaxFp == 3
\* News items delivered to the adapters, all daemons together.
MaxItems == 3
\* Calls of pop_pending_alerts by the consumer.
MaxPops == 2
\* Reads of pending.json by the status / alerts commands.
MaxReads == 1
\* Daemon processes that can be spawned.
NumPids == 2
\* news-daemon start commands issued.
MaxStarts == 2

\* Polls of the polling loop of stop_daemon (range(50) in the source), scaled.
StopPolls == 2
\* Consecutive failures of the WebSocket connection that are followed.
MaxFails == 8

\* Feeds of one RSS pass (len(RSS_FEEDS), 5 in the source), scaled.
NumFeeds == 2

Pids == 1..NumPids
Fps == 1..MaxFp
Adapters == {"alpaca", "rss", "finnhub"}
\* classify_news sets urgency to "critical", "high" or leaves it "low".
Urgencies == {"critical", "high", "low"}

\* Shares requested by a trade, and positions held.
MaxQty == 3
MaxPositions == 2
\* max_open_positions of the risk configuration (15 by default), scaled.
max_open_positions == 2

\* Words of a headline or summary.
MaxHeadline == 1
MaxSummary == 1

VARIABLES
    pendingFile,  \* PENDING_FILE: [exists, whole, data], data a sequence of alerts
    seenFile,     \* SEEN_FILE: [exists, whole, data], data a sequence of fingerprints
    pidFile,      \* DAEMON_PID_FILE: [exists, whole, pid]
    dpc,          \* dpc[p]: where daemon process p is in main / run_daemon
    seen,         \* seen[p]: the set `seen` of run_daemon
    stop_event,   \* stop_event[p]: the asyncio.Event of run_daemon
    classification, \* a classify_news call: [pc, headline, summary, symbols, text, result]
    trade,        \* an approve_trade call: [pc, ticker, side, quantity, price, portfolio_value, positions, result]
    sigterm,      \* sigterm[p]: a SIGTERM / SIGINT sent to p and not handled yet
    task,         \* task[p][a]: where adapter task a of daemon p is
    feed,         \* feed[p]: index in RSS_FEEDS of the feed rss_poll_loop is at
    reconnect_delay, \* reconnect_delay[p]: the local of alpaca_news_stream
    handshake_ok, \* history: handshake_ok[p], every handshake read of p's connection returned the frame awaited
    fails,        \* history: fails[p], the failures of p's connection since it last streamed
    owner,        \* owner[p]: the task iterating a batch on p's event loop, or "none"
    addAlert,     \* addAlert[p]: the add_alert call in progress in daemon p
    consumer,     \* the consumer's pop_pending_alerts call in progress
    starts,       \* starts[s]: where news-daemon start command s is
    stopCmd,      \* the news-daemon stop command: [pc, pid, polls, sent, result]
    nItems,       \* items delivered so far
    nReads,       \* reads done by the status / alerts commands
    appendLog,    \* history: [pid, alert] of every add_alert call, in call order
    evicted,      \* history: ids of alerts cut off by the capacity limit
    failed,       \* history: ids of the alerts whose _save_pending raised
    popLog,       \* history: what each pop_pending_alerts returned
    quiet,        \* history: no add_alert step since the last pop began
    writing,      \* history: [old, new], the queue pending.json held last and the one being written
    torn,         \* history: a _load_pending got neither of the two while the file was written
    seenOrder,    \* history: seenOrder[p], the fingerprints in order of seen.add
    recorded,     \* history: recorded[p], the last dedup check-and-record of p: [n, fp]
    flushed       \* history: flushed[p], run_daemon's final _save_seen was done

vars == <<pendingFile, seenFile, pidFile, dpc, seen, stop_event, classification, trade, sigterm, task,
          feed, reconnect_delay, fails, handshake_ok, owner, addAlert, consumer, starts,
          stopCmd, nItems, nReads,
          appendLog, evicted, failed, popLog, quiet, writing, torn, seenOrder,
          recorded,
          flushed>>

\* The variables by the process or file they belong to.
files == <<pendingFile, seenFile, pidFile>>
alpacaVars == <<reconnect_delay, fails, handshake_ok>>
daemonVars == <<dpc, seen, stop_event, classification, trade, sigterm, task, feed, alpacaVars, owner, addAlert>>
cliVars == <<starts, stopCmd>>
storeHistory == <<appendLog, evicted, failed, popLog, quiet, writing, torn>>
seenHistory == <<seenOrder, recorded>>

\* ----------------------------------------------------------------- files
File(content) == [exists |-> TRUE, whole |-> TRUE, data |-> content]
\* A file opened for writing (O_TRUNC) whose content is not written yet.
Truncated == [exists |-> TRUE, whole |-> FALSE, data |-> <<>>]
NoFile == [exists |-> FALSE, whole |-> FALSE, data |-> <<>>]
PidFile(p) == [exists |-> TRUE, whole |-> TRUE, pid |-> p]
PidTruncated == [exists |-> TRUE, whole |-> FALSE, pid |-> 0]
NoPidFile == [exists |-> FALSE, whole |-> FALSE, pid |-> 0]

\* s[-n:]
Last(s, n) == IF Len(s) <= n THEN s ELSE SubSeq(s, Len(s) - n + 1, Len(s))
Range(s) == {s[i] : i \in 1..Len(s)}
Ids(s) == {s[i].id : i \in 1..Len(s)}

\* json.loads raises on an empty or partial file; the exception is swallowed.
_load_pending(f) == IF f.exists /\ f.whole THEN f.data ELSE <<>>

_save_pending_keeps_first(alerts) == File(SubSeq(alerts, 1, Len(Last(alerts, PendingCap))))
\* The content write_text leaves in PENDING_FILE.
_save_pending(alerts) == File(Last(alerts, PendingCap))

\* ------------------------------------------------------- the seen cache
\* sorted(seen): the fingerprints in ascending order.
RECURSIVE sorted(_)
sorted(S) ==
    IF S = {} THEN <<>>
    ELSE LET m == CHOOSE x \in S : \A y \in S : x <= y
         IN <<m>> \o sorted(S \ {m})

\* set(data[-5000:]); a missing or unparseable file gives the empty set.
_load_seen(f) == IF f.exists /\ f.whole THEN Range(Last(f.data, SeenCap)) ELSE {}

\* The content write_text leaves in SEEN_FILE: sorted(seen)[-5000:].
_save_seen(S) == File(Last(sorted(S), SeenCap))

\* read_pid: the pid on file, 0 (None) without a file or when int() raises.
read_pid(f) == IF f.exists /\ f.whole THEN f.pid ELSE 0

\* os.kill(pid, 0) succeeds: the process exists.
Alive(p) == p \in Pids /\ dpc[p] \notin {"absent", "exited", "killed"}

\* is_running: a pid is on file and that process exists.
is_running == read_pid(pidFile) # 0 /\ Alive(read_pid(pidFile))

\* ------------------------------------------------------------ the state
Idle == [pc |-> "idle", pending |-> <<>>]
NoCall == [pc |-> "idle", alerts |-> <<>>, quiet |-> FALSE]
\* pid: the pid read; polls: the polls that found the process alive; sent:
\* the signals delivered (history); result: what stop_daemon returns.
NoStop == [pc |-> "idle", pid |-> 0, polls |-> 0, sent |-> <<>>, result |-> FALSE]
NoRecord == [n |-> 0, fp |-> 0]

NoTasks == [a \in Adapters |-> "none"]
\* The tasks as asyncio.create_task leaves them: at their first statement.
NewTasks == [a \in Adapters |-> IF a = "rss" THEN "loop" ELSE "start"]
\* alpaca_news_stream reads frames; the two pollers sleep between polls.
StreamingTasks == [a \in Adapters |-> IF a = "alpaca" THEN "streaming" ELSE "wait"]
\* Each task waits for its next frame, feed or response.
FetchingTasks == [a \in Adapters |-> IF a = "alpaca" THEN "streaming" ELSE "fetching"]

\* The dict `result` of classify_news as it is created.
NewResult == [urgency |-> "low", matched_tickers |-> <<>>, is_macro |-> FALSE,
              keywords_hit |-> <<>>]
\* No classify_news call.
NoClassification == [pc |-> "none", headline |-> <<>>, summary |-> <<>>,
                     symbols |-> <<>>, text |-> <<>>, result |-> NewResult]

\* The tuple approve_trade returns.
Approval(approved, sized_qty, reason) ==
    [approved |-> approved, sized_qty |-> sized_qty, reason |-> reason]
\* No approve_trade call.
NoTrade == [pc |-> "none", ticker |-> "", side |-> "", quantity |-> 0, price |-> 0,
            portfolio_value |-> 0, positions |-> <<>>, result |-> Approval(FALSE, 0, "")]

InitHistory ==
    /\ nItems = 0
    /\ nReads = 0
    /\ appendLog = <<>>
    /\ evicted = {}
    /\ failed = {}
    /\ popLog = <<>>
    /\ quiet = FALSE
    /\ writing = [old |-> <<>>, new |-> <<>>]
    /\ torn = FALSE
    /\ seenOrder = [p \in Pids |-> <<>>]
    /\ recorded = [p \in Pids |-> NoRecord]
    /\ flushed = [p \in Pids |-> FALSE]

InitIdle ==
    /\ seen = [p \in Pids |-> {}]
    /\ stop_event = [p \in Pids |-> FALSE]
    /\ sigterm = [p \in Pids |-> FALSE]
    /\ feed = [p \in Pids |-> 1]
    /\ reconnect_delay = [p \in Pids |-> 1]
    /\ fails = [p \in Pids |-> 0]
    /\ handshake_ok = [p \in Pids |-> TRUE]
    /\ owner = [p \in Pids |-> "none"]
    /\ addAlert = [p \in Pids |-> Idle]
    /\ consumer = NoCall
    /\ starts = [s \in 1..MaxStarts |-> "idle"]
    /\ stopCmd = NoStop

\* Daemon 1, started on empty data files, completed startup and its tasks
\* are as `tasks`; no other daemon was spawned.
InitRunning(tasks) ==
    /\ InitHistory
    /\ InitIdle
    /\ classification = NoClassification
    /\ trade = NoTrade
    /\ pendingFile = NoFile
    /\ pidFile = PidFile(1)
    /\ dpc = [p \in Pids |-> IF p = 1 THEN "running" ELSE "absent"]
    /\ task = [p \in Pids |-> IF p = 1 THEN tasks ELSE NoTasks]

\* ------------------------------------------------- an adapter's item pass
\* No task of p is between two awaits: the event loop can run a callback.
LoopFree(p) == owner[p] = "none" /\ addAlert[p].pc = "idle"

\* The item point of each loop: a frame, a feed or a response has arrived
\* (owner "none": its first item) or is being iterated (owner a).
ItemPoint(p, a) ==
    /\ dpc[p] = "running"
    /\ task[p][a] = (IF a = "alpaca" THEN "streaming" ELSE "fetching")
    /\ owner[p] \in {"none", a}
    /\ addAlert[p].pc = "idle"

\* The alert dict; id stands for the fields that tell two alerts apart
\* (headline, timestamp, url).
NewAlert(a, fp, urg) ==
    [id |-> Len(appendLog) + 1, source |-> a, fp |-> fp, urgency |-> urg]

record_forgets(S, fp) == S
record_evicts(S, fp) == (IF S = {} THEN S ELSE S \ {CHOOSE x \in S : TRUE}) \cup {fp}
record_resets(S, fp) == {fp}
\* seen.add(nid)
record(S, fp) == S \cup {fp}

\* The history of a write_text of `new` that opens the file.
Opening(new) == [old |-> IF pendingFile.whole THEN pendingFile.data ELSE writing.old,
                 new |-> new]
\* A _load_pending of the file as it is reads a file that is being written
\* and returns [], which is neither the queue it held nor the one written.
TornRead ==
    torn \/ (pendingFile.exists /\ ~pendingFile.whole
               /\ writing.old # <<>> /\ writing.new # <<>>)

\* One iteration of `for msg in messages` / `for entry in feed.entries[:15]`
\* / `for item in data[:20]`: the dedup check-and-record, the classification
\* (its urgency is the input urg) and, for an urgent item, add_alert up to
\* its _load_pending.
is_urgent_always(urg) == TRUE
\* `if classification["urgency"] in ("critical", "high")`
is_urgent(urg) == urg \in {"critical", "high"}

ProcessItem(p, a, fp, urg) ==
    /\ ItemPoint(p, a)
    /\ nItems < MaxItems
    /\ nItems' = nItems + 1
    /\ owner' = [owner EXCEPT ![p] = a]
    /\ recorded' = [recorded EXCEPT ![p] = [n |-> nItems + 1, fp |-> fp]]
    /\ IF fp \in seen[p]
       THEN UNCHANGED <<seen, seenOrder, addAlert, appendLog, quiet, torn>>
       ELSE /\ seen' = [seen EXCEPT ![p] = record(@, fp)]
            /\ seenOrder' = [seenOrder EXCEPT ![p] = Append(@, fp)]
            /\ IF is_urgent(urg)
               THEN /\ addAlert' = [addAlert EXCEPT ![p] =
                           [pc |-> "open",
                            pending |-> Append(_load_pending(pendingFile), NewAlert(a, fp, urg))]]
                    /\ appendLog' = Append(appendLog, [pid |-> p, alert |-> NewAlert(a, fp, urg)])
                    /\ quiet' = FALSE
                    /\ torn' = TornRead
               ELSE UNCHANGED <<addAlert, appendLog, quiet, torn>>
    /\ UNCHANGED <<files, dpc, stop_event, classification, trade, sigterm, task, feed, alpacaVars, consumer, cliVars,
                   nReads, evicted, failed, popLog, writing, flushed>>

\* _save_pending in add_alert: write_text opens PENDING_FILE, truncating it.
AddAlertOpen(p) ==
    /\ Alive(p)
    /\ addAlert[p].pc = "open"
    /\ pendingFile' = Truncated
    /\ addAlert' = [addAlert EXCEPT ![p].pc = "write"]
    /\ writing' = Opening(addAlert[p].pending)
    /\ quiet' = FALSE
    /\ UNCHANGED <<seenFile, pidFile, dpc, seen, stop_event, classification, trade, sigterm, task, feed, alpacaVars,
                   owner, consumer, cliVars, nItems, nReads, appendLog, evicted, failed,
                   popLog, torn, seenHistory, flushed>>

\* _save_pending in add_alert: the content is written; add_alert returns.
AddAlertWrite(p) ==
    /\ Alive(p)
    /\ addAlert[p].pc = "write"
    /\ pendingFile' = _save_pending(addAlert[p].pending)
    /\ evicted' = evicted \cup (Ids(addAlert[p].pending) \ Ids(pendingFile'.data))
    /\ addAlert' = [addAlert EXCEPT ![p] = Idle]
    /\ quiet' = FALSE
    /\ UNCHANGED <<seenFile, pidFile, dpc, seen, stop_event, classification, trade, sigterm, task, feed, alpacaVars,
                   owner, consumer, cliVars, nItems, nReads, appendLog, failed,
                   popLog, writing, torn, seenHistory, flushed>>

\* _save_pending in add_alert: write_text raises before the file is opened
\* for writing (no permission, no file descriptor left): the exception is
\* logged and add_alert returns.
AddAlertOpenFails(p) ==
    /\ Alive(p)
    /\ addAlert[p].pc = "open"
    /\ addAlert' = [addAlert EXCEPT ![p] = Idle]
    /\ failed' = failed \cup {addAlert[p].pending[Len(addAlert[p].pending)].id}
    /\ quiet' = FALSE
    /\ UNCHANGED <<files, dpc, seen, stop_event, classification, trade, sigterm, task, feed, alpacaVars,
                   owner, consumer, cliVars, nItems, nReads, appendLog, evicted,
                   popLog, writing, torn, seenHistory, flushed>>

\* _save_pending in add_alert: the write to the opened, truncated file raises
\* (disk full, I/O error): the exception is logged, the file stays as it is
\* and add_alert returns.
AddAlertWriteFails(p) ==
    /\ Alive(p)
    /\ addAlert[p].pc = "write"
    /\ addAlert' = [addAlert EXCEPT ![p] = Idle]
    /\ failed' = failed \cup {addAlert[p].pending[Len(addAlert[p].pending)].id}
    /\ quiet' = FALSE
    /\ UNCHANGED <<files, dpc, seen, stop_event, classification, trade, sigterm, task, feed, alpacaVars,
                   owner, consumer, cliVars, nItems, nReads, appendLog, evicted,
                   popLog, writing, torn, seenHistory, flushed>>

\* ------------------------------------------------------------ consumer
\* pop_pending_alerts (NewsMonitor.check_realtime_alerts):
\* alerts = _load_pending(); an empty list is returned at once, unwritten.
PopLoad ==
    /\ consumer.pc = "idle"
    /\ Len(popLog) < MaxPops
    /\ IF _load_pending(pendingFile) = <<>>
       THEN /\ consumer' = NoCall
            /\ popLog' = Append(popLog, [alerts |-> <<>>, quiet |-> quiet])
       ELSE /\ consumer' = [pc |-> "open", alerts |-> _load_pending(pendingFile),
                              quiet |-> quiet]
            /\ UNCHANGED popLog
    /\ torn' = TornRead
    /\ quiet' = \A p \in Pids : addAlert[p].pc = "idle"
    /\ UNCHANGED <<files, daemonVars, cliVars, nItems, nReads, appendLog, evicted, failed,
                   writing, seenHistory, flushed>>

\* _save_pending([]) in pop_pending_alerts: the file is opened, truncating it.
PopOpen ==
    /\ consumer.pc = "open"
    /\ pendingFile' = Truncated
    /\ consumer' = [consumer EXCEPT !.pc = "write"]
    /\ writing' = Opening(<<>>)
    /\ UNCHANGED <<seenFile, pidFile, daemonVars, cliVars, nItems, nReads,
                   appendLog, evicted, failed, popLog, quiet, torn, seenHistory, flushed>>

pop_keeps_queue(alerts) == File(alerts)
\* What pop_pending_alerts, having loaded alerts, writes: _save_pending([]).
pop_writes(alerts) == _save_pending(<<>>)

\* _save_pending([]) writes "[]"; pop_pending_alerts returns the alerts.
PopWrite ==
    /\ consumer.pc = "write"
    /\ pendingFile' = pop_writes(consumer.alerts)
    /\ popLog' = Append(popLog, [alerts |-> consumer.alerts, quiet |-> consumer.quiet])
    /\ consumer' = NoCall
    /\ UNCHANGED <<seenFile, pidFile, daemonVars, cliVars, nItems, nReads,
                   appendLog, evicted, failed, quiet, writing, torn, seenHistory, flushed>>

\* ------------------------------------------------------- status / alerts
\* news-daemon alerts, and news-daemon status of a running daemon:
\* alerts = _load_pending(), printed.
shown_and_cleared(file) == File(<<>>)
\* pending.json after the command: _load_pending reads the file and the
\* command prints; nothing is written.
shown(file) == file

ReadPending ==
    /\ nReads < MaxReads
    /\ nReads' = nReads + 1
    /\ torn' = TornRead
    /\ pendingFile' = shown(pendingFile)
    /\ UNCHANGED <<seenFile, pidFile, daemonVars, consumer, cliVars, nItems, appendLog,
                   evicted, failed, popLog, quiet, writing, seenHistory, flushed>>

\* ------------------------------------------------- alpaca_news_stream
TaskAt(p, a, pcs) == dpc[p] = "running" /\ task[p][a] \in pcs /\ LoopFree(p)
Goto(p, a, pc) == task' = [task EXCEPT ![p][a] = pc]

taskFrame == <<pendingFile, pidFile, dpc, seen, stop_event, classification, trade, sigterm, feed, owner,
               addAlert, consumer, cliVars, nItems, nReads, storeHistory,
               seenHistory, flushed>>

\* The import and the credentials check: without websockets or without
\* ALPACA_API_KEY / ALPACA_SECRET_KEY the task returns.
AlpacaStart(p, creds) ==
    /\ TaskAt(p, "alpaca", {"start"})
    /\ Goto(p, "alpaca", IF creds THEN "loop" ELSE "done")
    /\ UNCHANGED <<seenFile, alpacaVars, taskFrame>>

\* `while not stop_event.is_set()`: connect, or leave the loop, _save_seen
\* and return.
AlpacaLoop(p) ==
    /\ TaskAt(p, "alpaca", {"loop"})
    /\ IF stop_event[p]
       THEN Goto(p, "alpaca", "done") /\ seenFile' = _save_seen(seen[p])
       ELSE Goto(p, "alpaca", "connecting") /\ UNCHANGED seenFile
    /\ UNCHANGED <<alpacaVars, taskFrame>>

\* websockets.connect returned: the task awaits the initial frame.
AlpacaOpen(p) ==
    /\ TaskAt(p, "alpaca", {"connecting"})
    /\ Goto(p, "alpaca", "init")
    /\ handshake_ok' = [handshake_ok EXCEPT ![p] = TRUE]
    /\ UNCHANGED <<seenFile, reconnect_delay, fails, taskFrame>>

\* wait_for(ws.recv(), timeout=10) returned a frame, the one awaited
\* (awaited) or another one, an error frame say; the frame is logged, not
\* inspected.  After the initial frame the credentials are sent, after the
\* response to them the subscription.
AlpacaHandshake(p, awaited) ==
    /\ TaskAt(p, "alpaca", {"init", "auth"})
    /\ Goto(p, "alpaca", IF task[p]["alpaca"] = "init" THEN "auth" ELSE "sub")
    /\ handshake_ok' = [handshake_ok EXCEPT ![p] = @ /\ awaited]
    /\ UNCHANGED <<seenFile, reconnect_delay, fails, taskFrame>>

\* The third read of the handshake returned a frame: reconnect_delay = 1;
\* the inner `while not stop_event.is_set()` is evaluated before the first
\* recv.
AlpacaConnected(p, awaited) ==
    /\ TaskAt(p, "alpaca", {"sub"})
    /\ Goto(p, "alpaca", IF stop_event[p] THEN "loop" ELSE "streaming")
    /\ handshake_ok' = [handshake_ok EXCEPT ![p] = @ /\ awaited]
    /\ reconnect_delay' = [reconnect_delay EXCEPT ![p] = 1]
    /\ fails' = [fails EXCEPT ![p] = 0]
    /\ UNCHANGED <<seenFile, taskFrame>>

\* An exception out of the connection (connect failed, a handshake read
\* timed out or failed, recv failed):
\* break when stop_event is set, else sleep reconnect_delay.
on_ws_error_gives_up(stopped) == IF stopped THEN "loop" ELSE "done"

\* `except Exception` of the connection loop: with stop_event set the loop
\* is left, otherwise the task sleeps and reconnects.
on_ws_error(stopped) == IF stopped THEN "loop" ELSE "backoff"

AlpacaError(p) ==
    /\ TaskAt(p, "alpaca", {"connecting", "init", "auth", "sub", "streaming"})
    /\ fails[p] < MaxFails
    /\ Goto(p, "alpaca", on_ws_error(stop_event[p]))
    /\ fails' = [fails EXCEPT ![p] = @ + 1]
    /\ UNCHANGED <<seenFile, reconnect_delay, handshake_ok, taskFrame>>

max_reconnect_delay == 60

next_delay_uncapped(delay) == delay * 2
\* min(reconnect_delay * 2, max_reconnect_delay)
next_delay(delay) ==
    IF delay * 2 <= max_reconnect_delay THEN delay * 2 ELSE max_reconnect_delay

\* asyncio.sleep(reconnect_delay) returns; reconnect_delay is doubled up to
\* max_reconnect_delay.
AlpacaBackoff(p) ==
    /\ TaskAt(p, "alpaca", {"backoff"})
    /\ Goto(p, "alpaca", "loop")
    /\ reconnect_delay' = [reconnect_delay EXCEPT ![p] = next_delay(@)]
    /\ UNCHANGED <<seenFile, fails, handshake_ok, taskFrame>>

on_timeout_reconnects == "backoff"
\* `except asyncio.TimeoutError: continue`: to the test of the inner loop.
on_timeout == "repoll"

\* wait_for(ws.recv(), timeout=30) times out.
AlpacaTimeout(p) ==
    /\ TaskAt(p, "alpaca", {"streaming"})
    /\ Goto(p, "alpaca", on_timeout)
    /\ UNCHANGED <<seenFile, alpacaVars, taskFrame>>

\* `while not stop_event.is_set()` of the connection, after the `continue`:
\* the next recv on the same connection, or the way out.
AlpacaRepoll(p) ==
    /\ TaskAt(p, "alpaca", {"repoll"})
    /\ Goto(p, "alpaca", IF stop_event[p] THEN "loop" ELSE "streaming")
    /\ UNCHANGED <<seenFile, alpacaVars, taskFrame>>

batchFrame == <<pendingFile, pidFile, dpc, seen, stop_event, classification, trade, sigterm, addAlert,
                consumer, cliVars, nItems, nReads, storeHistory, seenHistory,
                flushed>>

\* The messages of the frame are iterated: back to the loop test.
AlpacaFrameDone(p) ==
    /\ dpc[p] = "running" /\ task[p]["alpaca"] = "streaming"
    /\ owner[p] = "alpaca" /\ addAlert[p].pc = "idle"
    /\ owner' = [owner EXCEPT ![p] = "none"]
    /\ Goto(p, "alpaca", IF stop_event[p] THEN "loop" ELSE "streaming")
    /\ UNCHANGED <<seenFile, feed, alpacaVars, batchFrame>>

\* ------------------------------------------------------- rss_poll_loop
\* `while not stop_event.is_set()`, at the start and after the wait between
\* polls (wait_for(stop_event.wait(), timeout=interval) returned): fetch the
\* first feed, or return.
poll_again_always(stopped) == "fetching"
\* `while not stop_event.is_set()` of rss_poll_loop and finnhub_poll_loop
poll_again(stopped) == IF stopped THEN "done" ELSE "fetching"

RssLoop(p) ==
    /\ TaskAt(p, "rss", {"loop", "wait"})
    /\ Goto(p, "rss", poll_again(stop_event[p]))
    /\ feed' = [feed EXCEPT ![p] = 1]
    /\ UNCHANGED <<files, dpc, seen, stop_event, classification, trade, sigterm, alpacaVars, owner, addAlert,
                   consumer, cliVars, nItems, nReads, storeHistory, seenHistory,
                   flushed>>

\* The entries of the feed are iterated (or there were none, or the fetch
\* raised): the next feed is fetched; after the last feed, or with stop_event
\* set, _save_seen and the wait between polls.
RssFeedDone(p) ==
    /\ dpc[p] = "running" /\ task[p]["rss"] = "fetching"
    /\ owner[p] \in {"none", "rss"} /\ addAlert[p].pc = "idle"
    /\ owner' = [owner EXCEPT ![p] = "none"]
    /\ IF feed[p] < NumFeeds /\ ~stop_event[p]
       THEN /\ feed' = [feed EXCEPT ![p] = @ + 1]
            /\ UNCHANGED <<task, seenFile>>
       ELSE /\ feed' = [feed EXCEPT ![p] = 1]
            /\ Goto(p, "rss", "wait")
            /\ seenFile' = _save_seen(seen[p])
    /\ UNCHANGED <<alpacaVars, batchFrame>>

\* ----------------------------------------------------- finnhub_poll_loop
\* Without FINNHUB_API_KEY the task returns.
FinnhubStart(p, key) ==
    /\ TaskAt(p, "finnhub", {"start"})
    /\ Goto(p, "finnhub", IF key THEN "loop" ELSE "done")
    /\ UNCHANGED <<seenFile, alpacaVars, taskFrame>>

\* `while not stop_event.is_set()`, at the start and after the wait.
FinnhubLoop(p) ==
    /\ TaskAt(p, "finnhub", {"loop", "wait"})
    /\ Goto(p, "finnhub", poll_again(stop_event[p]))
    /\ UNCHANGED <<seenFile, alpacaVars, taskFrame>>

\* The items of the response are iterated (or the poll raised): _save_seen
\* and the wait between polls.
FinnhubPollDone(p) ==
    /\ dpc[p] = "running" /\ task[p]["finnhub"] = "fetching"
    /\ owner[p] \in {"none", "finnhub"} /\ addAlert[p].pc = "idle"
    /\ owner' = [owner EXCEPT ![p] = "none"]
    /\ Goto(p, "finnhub", "wait")
    /\ seenFile' = _save_seen(seen[p])
    /\ UNCHANGED <<feed, alpacaVars, batchFrame>>

\* ---------------------------------------------------------- classify_news
\* A text is the sequence of its words; a keyword occurs in it when one of
\* the words is the keyword.  The keyword lists, the watchlist and the
\* company map are the first entries of the source's, scaled.
MACRO_CRITICAL == <<"fomc", "tariff">>
MACRO_HIGH == <<"inflation">>
TICKER_CRITICAL == <<"earnings">>
TICKER_HIGH == <<"upgrade", "dividend">>
DEFAULT_WATCHLIST == <<"AAPL", "MSFT">>
company_map == <<[name |-> "apple", tk |-> "AAPL"], [name |-> "microsoft", tk |-> "MSFT"]>>

\* The words a headline or summary is made of, and the symbols of an item.
Cased == {<<"fomc", "FOMC">>, <<"tariff", "TARIFF">>, <<"inflation", "INFLATION">>,
          <<"earnings", "EARNINGS">>, <<"upgrade", "UPGRADE">>,
          <<"dividend", "DIVIDEND">>, <<"apple", "APPLE">>, <<"msft", "MSFT">>,
          <<"aapl", "AAPL">>, <<"ibm", "IBM">>, <<"the", "THE">>,
          <<"sell", "SELL">>, <<"buy", "BUY">>}
Words == {"fomc", "FOMC", "tariff", "inflation", "earnings", "upgrade", "dividend",
          "apple", "MSFT", "the"}
SymbolLists == {<<>>, <<"aapl">>, <<"IBM", "AAPL">>, <<"AAPL", "aapl">>}

\* str.lower and str.upper, word by word.
lower(w) == IF \E c \in Cased : c[2] = w THEN (CHOOSE c \in Cased : c[2] = w)[1] ELSE w
upper(w) == IF \E c \in Cased : c[1] = w THEN (CHOOSE c \in Cased : c[1] = w)[2] ELSE w
lower_all(ws) == [i \in DOMAIN ws |-> lower(ws[i])]
upper_all(ws) == [i \in DOMAIN ws |-> upper(ws[i])]
\* `kw in text`
occurs(kw, text) == \E i \in DOMAIN text : text[i] = kw

\* The body of the loop of each tier, for a keyword that occurs.
hit(tier, res, kw) ==
    CASE tier = "macro_critical" ->
             [res EXCEPT !.urgency = "critical", !.is_macro = TRUE,
                         !.keywords_hit = Append(@, kw)]
      [] tier = "macro_high" ->
             [res EXCEPT !.urgency = IF @ # "high" THEN "high" ELSE @, !.is_macro = TRUE,
                         !.keywords_hit = Append(@, kw)]
      [] tier = "ticker_critical" ->
             [res EXCEPT !.urgency = "critical", !.keywords_hit = Append(@, kw)]
      [] tier = "ticker_high" ->
             [res EXCEPT !.urgency = "high", !.keywords_hit = Append(@, kw)]

\* `for kw in <tier>: if kw in text: ...`
RECURSIVE scan(_, _, _, _)
scan(tier, kws, text, res) ==
    IF kws = <<>> THEN res
    ELSE scan(tier, Tail(kws), text,
              IF occurs(Head(kws), text) THEN hit(tier, res, Head(kws)) ELSE res)

ticker_high_always(urgency) == TRUE
\* `if result["urgency"] != "critical"` before the macro-high tier and
\* `if result["urgency"] not in ("critical",)` before the ticker-high tier.
macro_high_applies(urgency) == urgency # "critical"
ticker_high_applies(urgency) == urgency \notin {"critical"}

\* `[s for s in symbols if s in watchlist_set]`
RECURSIVE in_watchlist(_)
in_watchlist(symbols) ==
    IF symbols = <<>> THEN <<>>
    ELSE (IF occurs(Head(symbols), DEFAULT_WATCHLIST) THEN <<Head(symbols)>> ELSE <<>>)
         \o in_watchlist(Tail(symbols))

\* `for tk in DEFAULT_WATCHLIST`: a ticker named in the text or the headline.
RECURSIVE mentioned(_, _, _, _)
mentioned(tks, text, headline, matched) ==
    IF tks = <<>> THEN matched
    ELSE mentioned(Tail(tks), text, headline,
                   IF /\ occurs(lower(Head(tks)), text) \/ occurs(Head(tks), upper_all(headline))
                      /\ ~occurs(Head(tks), matched)
                   THEN Append(matched, Head(tks)) ELSE matched)

\* `for name, tk in company_map.items()`
RECURSIVE companies(_, _, _)
companies(cm, text, matched) ==
    IF cm = <<>> THEN matched
    ELSE companies(Tail(cm), text,
                   IF occurs(Head(cm).name, text) /\ ~occurs(Head(cm).tk, matched)
                   THEN Append(matched, Head(cm).tk) ELSE matched)

classifyFrame == <<files, dpc, seen, stop_event, trade, sigterm, task, feed, alpacaVars, owner,
                   addAlert, consumer, cliVars, nItems, nReads, storeHistory,
                   seenHistory, flushed>>

ClassifyAt(pc) == classification.pc = pc
ClassifyStep(pc, res) ==
    /\ classification' = [classification EXCEPT !.pc = pc, !.result = res]
    /\ UNCHANGED classifyFrame

\* text = f"{headline} {summary}".lower(), symbols upper-cased, result created.
ClassifyStart ==
    /\ ClassifyAt("start")
    /\ classification' = [classification EXCEPT
           !.pc = "macro_critical",
           !.text = lower_all(classification.headline \o classification.summary),
           !.symbols = upper_all(@),
           !.result = NewResult]
    /\ UNCHANGED classifyFrame

MacroCritical ==
    /\ ClassifyAt("macro_critical")
    /\ ClassifyStep("macro_high",
                    scan("macro_critical", MACRO_CRITICAL, classification.text,
                         classification.result))

MacroHigh ==
    /\ ClassifyAt("macro_high")
    /\ ClassifyStep("ticker_critical",
                    IF macro_high_applies(classification.result.urgency)
                    THEN scan("macro_high", MACRO_HIGH, classification.text,
                              classification.result)
                    ELSE classification.result)

TickerCritical ==
    /\ ClassifyAt("ticker_critical")
    /\ ClassifyStep("ticker_high",
                    scan("ticker_critical", TICKER_CRITICAL, classification.text,
                         classification.result))

TickerHigh ==
    /\ ClassifyAt("ticker_high")
    /\ ClassifyStep("tickers",
                    IF ticker_high_applies(classification.result.urgency)
                    THEN scan("ticker_high", TICKER_HIGH, classification.text,
                              classification.result)
                    ELSE classification.result)

\* The matched tickers, and the return.
MatchTickers ==
    /\ ClassifyAt("tickers")
    /\ ClassifyStep("returned",
                    [classification.result EXCEPT !.matched_tickers =
                        companies(company_map, classification.text,
                                  mentioned(DEFAULT_WATCHLIST, classification.text,
                                            classification.headline,
                                            in_watchlist(classification.symbols)))])

\* ---------------------------------------------------------- approve_trade
\* The defaults of _load_risk_config, in percent.
max_position_pct == 5
min_cash_pct == 20

\* Amounts are whole currency units; a percentage of the portfolio value is
\* kept as hundredths, so that no amount is rounded.
is_sell_never(side) == FALSE
\* `side.lower() == "sell"`
is_sell(side) == lower(side) = "sell"

held_always(ticker, positions) == TRUE
\* `ticker in existing`, existing the tickers of the positions
held(ticker, positions) == \E i \in DOMAIN positions : positions[i].ticker = ticker

\* `sum(p.get("market_value", 0) for p in positions if p.get("ticker") == ticker)`
RECURSIVE existing_value(_, _)
existing_value(ticker, positions) ==
    IF positions = <<>> THEN 0
    ELSE (IF Head(positions).ticker = ticker THEN Head(positions).market_value ELSE 0)
         + existing_value(ticker, Tail(positions))

\* `sum(p.get("market_value", 0) for p in positions)`
RECURSIVE total_positions_value(_)
total_positions_value(positions) ==
    IF positions = <<>> THEN 0
    ELSE Head(positions).market_value + total_positions_value(Tail(positions))

sized_one_more(allowed100, price) == (allowed100 \div (100 * price)) + 1
\* `int(allowed_value / price)` and `int(allowed_cash / price)`, the allowed
\* amount positive and given in hundredths.
sized(allowed100, price) == allowed100 \div (100 * price)

reserve_never_short(cash100, min_cash100) == FALSE
\* `cash_after_trade < min_cash`, both in hundredths
reserve_short(cash100, min_cash100) == cash100 < min_cash100

approve_trade(ticker, side, quantity, price, portfolio_value, positions) ==
    LET max_trade100 == portfolio_value * max_position_pct
        trade_value == quantity * price
        existing == existing_value(ticker, positions)
        allowed100 == max_trade100 - 100 * existing
        cash == portfolio_value - total_positions_value(positions)
        min_cash100 == portfolio_value * min_cash_pct
        allowed_cash100 == 100 * cash - min_cash100
    IN  IF is_sell(side) THEN Approval(TRUE, quantity, "sell")
        ELSE IF Len(positions) >= max_open_positions /\ ~held(ticker, positions)
        THEN Approval(FALSE, 0, "max_positions")
        ELSE IF 100 * (existing + trade_value) > max_trade100
        THEN IF allowed100 <= 0 THEN Approval(FALSE, 0, "at_max_position")
             ELSE IF sized(allowed100, price) <= 0
             THEN Approval(FALSE, 0, "position_too_small")
             ELSE Approval(TRUE, sized(allowed100, price), "sized_position")
        ELSE IF reserve_short(100 * (cash - trade_value), min_cash100)
        THEN IF allowed_cash100 <= 0 THEN Approval(FALSE, 0, "insufficient_cash")
             ELSE IF sized(allowed_cash100, price) <= 0
             THEN Approval(FALSE, 0, "cash_too_small")
             ELSE Approval(TRUE, sized(allowed_cash100, price), "sized_cash")
        ELSE Approval(TRUE, quantity, "approved")

\* The call returns.
ApproveTrade ==
    /\ trade.pc = "call"
    /\ trade' = [trade EXCEPT !.pc = "returned",
                              !.result = approve_trade(trade.ticker, trade.side, trade.quantity,
                                                       trade.price, trade.portfolio_value,
                                                       trade.positions)]
    /\ UNCHANGED <<files, dpc, seen, stop_event, classification, sigterm, task, feed,
                   alpacaVars, owner, addAlert, consumer, cliVars, nItems, nReads,
                   storeHistory, seenHistory, flushed>>

\* ------------------------------------------------------ a malformed item
\* An item of the frame, feed or response that cannot be processed: its
\* iteration raises, before a fingerprint is made (fp = 0: a message that is
\* no object) or after `seen.add(nid)`, in classify_news or while the alert
\* is built (a field of the wrong type) - an item seen before is passed by
\* `continue` and raises nothing.  alpaca_news_stream catches only JSONDecodeError around the
\* frame, so the exception reaches `except Exception` of the connection
\* loop, as in AlpacaError; in the pollers it reaches the `except Exception`
\* around the feed or the poll, as in RssFeedDone and FinnhubPollDone.
ItemRaises(p, a, fp) ==
    /\ ItemPoint(p, a)
    /\ nItems < MaxItems
    /\ nItems' = nItems + 1
    /\ fp \notin seen[p]
    /\ IF fp = 0
       THEN UNCHANGED <<seen, seenHistory>>
       ELSE /\ seen' = [seen EXCEPT ![p] = record(@, fp)]
            /\ seenOrder' = [seenOrder EXCEPT ![p] = Append(@, fp)]
            /\ recorded' = [recorded EXCEPT ![p] = [n |-> nItems + 1, fp |-> fp]]
    /\ owner' = [owner EXCEPT ![p] = "none"]
    /\ CASE a = "alpaca" ->
              /\ fails[p] < MaxFails
              /\ Goto(p, "alpaca", on_ws_error(stop_event[p]))
              /\ fails' = [fails EXCEPT ![p] = @ + 1]
              /\ UNCHANGED <<seenFile, feed, reconnect_delay, handshake_ok>>
         [] a = "rss" ->
              /\ IF feed[p] < NumFeeds /\ ~stop_event[p]
                 THEN /\ feed' = [feed EXCEPT ![p] = @ + 1]
                      /\ UNCHANGED <<task, seenFile>>
                 ELSE /\ feed' = [feed EXCEPT ![p] = 1]
                      /\ Goto(p, "rss", "wait")
                      /\ seenFile' = _save_seen(seen[p])
              /\ UNCHANGED alpacaVars
         [] a = "finnhub" ->
              /\ Goto(p, "finnhub", "wait")
              /\ seenFile' = _save_seen(seen[p])
              /\ UNCHANGED <<feed, alpacaVars>>
    /\ UNCHANGED <<pendingFile, pidFile, dpc, stop_event, classification, trade, sigterm, addAlert,
                   consumer, cliVars, nReads, storeHistory, flushed>>

\* ----------------------------------------------------------- run_daemon
mainFrame == <<pendingFile, stop_event, classification, trade, sigterm, feed, alpacaVars, owner, addAlert, consumer,
               cliVars, nItems, nReads, storeHistory, recorded>>

\* main() without a command, up to add_signal_handler: seen = _load_seen(),
\* stop_event = asyncio.Event(), the SIGTERM / SIGINT handlers are installed.
RunLoadSeen(p) ==
    /\ dpc[p] = "boot"
    /\ dpc' = [dpc EXCEPT ![p] = "loaded"]
    /\ seen' = [seen EXCEPT ![p] = _load_seen(seenFile)]
    /\ seenOrder' = [seenOrder EXCEPT ![p] = sorted(_load_seen(seenFile))]
    /\ UNCHANGED <<files, task, flushed, mainFrame>>

\* write_pid: write_text opens DAEMON_PID_FILE, truncating it.
WritePidOpen(p) ==
    /\ dpc[p] = "loaded"
    /\ dpc' = [dpc EXCEPT ![p] = "pidopen"]
    /\ pidFile' = PidTruncated
    /\ UNCHANGED <<seenFile, seen, seenOrder, task, flushed, mainFrame>>

\* write_pid writes str(os.getpid()); the three tasks are created and
\* run_daemon awaits gather.
WritePid(p) ==
    /\ dpc[p] = "pidopen"
    /\ dpc' = [dpc EXCEPT ![p] = "running"]
    /\ pidFile' = PidFile(p)
    /\ task' = [task EXCEPT ![p] = NewTasks]
    /\ UNCHANGED <<seenFile, seen, seenOrder, flushed, mainFrame>>

\* The event loop runs the handler of a received SIGTERM / SIGINT:
\* stop_event.set.
HandleSignal(p) ==
    /\ dpc[p] = "running" /\ LoopFree(p)
    /\ sigterm[p]
    /\ sigterm' = [sigterm EXCEPT ![p] = FALSE]
    /\ stop_event' = [stop_event EXCEPT ![p] = TRUE]
    /\ UNCHANGED <<files, dpc, seen, classification, trade, task, feed, alpacaVars, owner, addAlert, consumer,
                   cliVars, nItems, nReads, storeHistory, seenHistory, flushed>>

AllDone(p) == \A a \in Adapters : task[p][a] = "done"

\* gather returned, all three tasks having returned; finally: _save_seen.
RunFinally(p) ==
    /\ dpc[p] = "running" /\ AllDone(p)
    /\ dpc' = [dpc EXCEPT ![p] = "unlink"]
    /\ seenFile' = _save_seen(seen[p])
    /\ flushed' = [flushed EXCEPT ![p] = TRUE]
    /\ UNCHANGED <<pidFile, seen, seenOrder, task, mainFrame>>

\* finally: DAEMON_PID_FILE.unlink(missing_ok=True); the process exits.
RunUnlink(p) ==
    /\ dpc[p] = "unlink"
    /\ dpc' = [dpc EXCEPT ![p] = "exited"]
    /\ pidFile' = NoPidFile
    /\ UNCHANGED <<seenFile, seen, seenOrder, task, flushed, mainFrame>>

\* A SIGTERM or SIGINT sent to the running daemon from outside (kill, ^C).
ExternalSignal(p) ==
    /\ dpc[p] = "running"
    /\ ~sigterm[p] /\ ~stop_event[p]
    /\ sigterm' = [sigterm EXCEPT ![p] = TRUE]
    /\ UNCHANGED <<files, dpc, seen, stop_event, classification, trade, task, feed, alpacaVars, owner, addAlert,
                   consumer, cliVars, nItems, nReads, storeHistory, seenHistory,
                   flushed>>

\* ---------------------------------------------------- news-daemon start
cliFrame == <<files, seen, stop_event, classification, trade, sigterm, task, feed, alpacaVars, owner, addAlert,
              consumer, nItems, nReads, storeHistory, seenHistory, flushed>>

\* `if is_running(): ... return`
StartCheck(s) ==
    /\ starts[s] = "idle"
    /\ starts' = [starts EXCEPT ![s] = IF is_running THEN "refused" ELSE "spawn"]
    /\ UNCHANGED <<dpc, stopCmd, cliFrame>>

\* The pid the system gives the next process.
FreshPid == CHOOSE p \in Pids : dpc[p] = "absent" /\ \A q \in Pids : dpc[q] = "absent" => p <= q

\* subprocess.Popen([sys.executable, "-m", "scripts.monitoring.realtime_news"])
StartSpawn(s) ==
    /\ starts[s] = "spawn"
    /\ \E p \in Pids : dpc[p] = "absent"
    /\ starts' = [starts EXCEPT ![s] = "spawned"]
    /\ dpc' = [dpc EXCEPT ![FreshPid] = "boot"]
    /\ UNCHANGED <<stopCmd, cliFrame>>

\* python -m scripts.monitoring.realtime_news, run by hand: main() goes to
\* run_daemon without a test of is_running.
DirectLaunch ==
    /\ \E p \in Pids : dpc[p] = "absent"
    /\ dpc' = [dpc EXCEPT ![FreshPid] = "boot"]
    /\ UNCHANGED <<cliVars, cliFrame>>

\* ------------------------------------------------------- stop_daemon
\* pid = read_pid(); without a pid stop_daemon returns False.  Else
\* os.kill(pid, SIGTERM), which raises when no such process exists.
StopTerm ==
    /\ stopCmd.pc = "idle"
    /\ IF read_pid(pidFile) = 0
       THEN stopCmd' = [NoStop EXCEPT !.pc = "done"] /\ UNCHANGED sigterm
       ELSE IF Alive(read_pid(pidFile))
            THEN /\ stopCmd' = [NoStop EXCEPT !.pc = "polling", !.pid = read_pid(pidFile),
                                                !.sent = <<"SIGTERM">>]
                 /\ sigterm' = [sigterm EXCEPT ![read_pid(pidFile)] = TRUE]
            ELSE /\ stopCmd' = [NoStop EXCEPT !.pc = "unlink", !.pid = read_pid(pidFile)]
                 /\ UNCHANGED sigterm
    /\ UNCHANGED <<files, dpc, seen, stop_event, classification, trade, task, feed, alpacaVars, owner, addAlert,
                   consumer, starts, nItems, nReads, storeHistory, seenHistory,
                   flushed>>

window_over_at_once(polls) == TRUE
\* `for _ in range(50)` is exhausted.
window_over(polls) == polls = StopPolls

\* os.kill(pid, 0) in the polling loop succeeds: time.sleep(0.1).
StopPollAlive ==
    /\ stopCmd.pc = "polling"
    /\ ~window_over(stopCmd.polls)
    /\ Alive(stopCmd.pid)
    /\ stopCmd' = [stopCmd EXCEPT !.polls = @ + 1]
    /\ UNCHANGED <<dpc, starts, cliFrame>>

\* os.kill(pid, 0) in the polling loop raises: the process is gone; the PID
\* file is unlinked next and True returned.
StopPollDead ==
    /\ stopCmd.pc = "polling"
    /\ ~window_over(stopCmd.polls)
    /\ ~Alive(stopCmd.pid)
    /\ stopCmd' = [stopCmd EXCEPT !.pc = "unlink", !.result = TRUE]
    /\ UNCHANGED <<dpc, starts, cliFrame>>

\* A wait of a task of p that can outlast the 5 s polling window of
\* stop_daemon: the connect and handshake (timeouts of 10 s), recv (timeout
\* 30 s), the reconnect sleep (up to 60 s), a fetch in the executor (no
\* timeout).
SlowWait(p) ==
    /\ dpc[p] = "running"
    /\ \/ task[p]["alpaca"] \in {"connecting", "init", "auth", "sub", "streaming", "backoff"}
       \/ task[p]["rss"] = "fetching"
       \/ task[p]["finnhub"] = "fetching"

\* The polls of the loop found the process alive: os.kill(pid, SIGKILL),
\* which ends the process wherever it is and True is returned; or it raises,
\* the process having exited after the last poll, and False is returned.
StopKill ==
    /\ stopCmd.pc = "polling"
    /\ window_over(stopCmd.polls)
    /\ Alive(stopCmd.pid) => SlowWait(stopCmd.pid)
    /\ stopCmd' = [stopCmd EXCEPT !.pc = "unlink",
                                  !.sent = IF Alive(stopCmd.pid) THEN Append(@, "SIGKILL") ELSE @,
                                  !.result = Alive(stopCmd.pid)]
    /\ IF Alive(stopCmd.pid)
       THEN /\ dpc' = [dpc EXCEPT ![stopCmd.pid] = "killed"]
            /\ addAlert' = [addAlert EXCEPT ![stopCmd.pid] = Idle]
            /\ owner' = [owner EXCEPT ![stopCmd.pid] = "none"]
       ELSE UNCHANGED <<dpc, addAlert, owner>>
    /\ UNCHANGED <<files, seen, stop_event, classification, trade, sigterm, task, feed, alpacaVars, consumer,
                   starts, nItems, nReads, storeHistory, seenHistory, flushed>>

\* DAEMON_PID_FILE.unlink(missing_ok=True); stop_daemon returns.
StopUnlink ==
    /\ stopCmd.pc = "unlink"
    /\ stopCmd' = [stopCmd EXCEPT !.pc = "done"]
    /\ pidFile' = NoPidFile
    /\ UNCHANGED <<pendingFile, seenFile, dpc, seen, stop_event, classification, trade, sigterm, task,
                   feed, alpacaVars, owner, addAlert, consumer, starts, nItems, nReads,
                   storeHistory, seenHistory, flushed>>

\* ------------------------------------------------------- specifications
\* The alert store: a running daemon whose WebSocket task streams (its
\* pollers sleep between polls, the seen ids saved by the first RSS pass),
\* the consumer and the status / alerts commands.
Init ==
    /\ InitRunning(StreamingTasks)
    /\ seenFile = File(<<>>)

\* Every item the WebSocket delivers here is a new one: the fingerprint of
\* the n-th item is n.
Next ==
    \/ \E p \in Pids, a \in Adapters, urg \in Urgencies : ProcessItem(p, a, nItems + 1, urg)
    \/ \E p \in Pids : AlpacaFrameDone(p)
    \/ \E p \in Pids : AddAlertOpen(p)
    \/ \E p \in Pids : AddAlertWrite(p)
    \/ PopLoad
    \/ PopOpen
    \/ PopWrite
    \/ ReadPending

Spec == Init /\ [][Next]_vars

\* The alert store on a disk whose writes can fail.
NextDisk ==
    \/ Next
    \/ \E p \in Pids : AddAlertOpenFails(p)
    \/ \E p \in Pids : AddAlertWriteFails(p)

SpecDisk == Init /\ [][NextDisk]_vars

\* The seen cache: a running daemon whose three tasks receive items (any
\* fingerprint, urgent or not) and save the seen ids after their passes.
InitSeen ==
    /\ InitRunning(FetchingTasks)
    /\ seenFile = NoFile

NextSeen ==
    \/ \E p \in Pids, a \in Adapters, fp \in Fps, urg \in {"high", "low"} : ProcessItem(p, a, fp, urg)
    \/ \E p \in Pids : AddAlertOpen(p)
    \/ \E p \in Pids : AddAlertWrite(p)
    \/ \E p \in Pids : AlpacaFrameDone(p)
    \/ \E p \in Pids : RssFeedDone(p)
    \/ \E p \in Pids : RssLoop(p)
    \/ \E p \in Pids : FinnhubPollDone(p)
    \/ \E p \in Pids : FinnhubLoop(p)

SpecSeen == InitSeen /\ [][NextSeen]_vars

\* The same with items that cannot be processed among the items delivered,
\* and the reconnection of the WebSocket task.
NextItems ==
    \/ NextSeen
    \/ \E p \in Pids, a \in Adapters, fp \in 0..MaxFp : ItemRaises(p, a, fp)
    \/ \E p \in Pids : AlpacaBackoff(p)
    \/ \E p \in Pids : AlpacaLoop(p)
    \/ \E p \in Pids : AlpacaOpen(p)
    \/ \E p \in Pids, awaited \in BOOLEAN : AlpacaHandshake(p, awaited)
    \/ \E p \in Pids, awaited \in BOOLEAN : AlpacaConnected(p, awaited)

SpecItems == InitSeen /\ [][NextItems]_vars

\* The seen cache with appends that fail: urgent items of the WebSocket and
\* of the RSS feeds, of which some raise after their fingerprint was
\* recorded and some are not written to pending.json.
NextOffer ==
    \/ \E p \in Pids, a \in {"alpaca", "rss"}, fp \in Fps : ProcessItem(p, a, fp, "high")
    \/ \E p \in Pids, fp \in Fps : ItemRaises(p, "rss", fp)
    \/ \E p \in Pids : AddAlertOpen(p)
    \/ \E p \in Pids : AddAlertWrite(p)
    \/ \E p \in Pids : AddAlertWriteFails(p)
    \/ \E p \in Pids : AlpacaFrameDone(p)
    \/ \E p \in Pids : RssFeedDone(p)

SpecOffer == InitSeen /\ [][NextOffer]_vars

\* approve_trade alone: one call on any trade and any positions held.
Sides == {"buy", "sell", "SELL"}
Prices == {0, 1, 3}
PortfolioValues == {100, 130}
Position == [ticker : {"AAPL", "T1"}, market_value : {0, 78, 85}]
RECURSIVE PositionLists(_)
PositionLists(n) == IF n = 0 THEN {<<>>} ELSE PositionLists(n - 1) \cup [1..n -> Position]

InitRisk ==
    /\ InitHistory
    /\ InitIdle
    /\ classification = NoClassification
    /\ pendingFile = NoFile
    /\ seenFile = NoFile
    /\ pidFile = NoPidFile
    /\ dpc = [p \in Pids |-> "absent"]
    /\ task = [p \in Pids |-> NoTasks]
    /\ \E tk \in {"AAPL", "NEW"}, sd \in Sides, q \in 0..MaxQty, pr \in Prices,
          pv \in PortfolioValues, ps \in PositionLists(MaxPositions) :
           trade = [pc |-> "call", ticker |-> tk, side |-> sd, quantity |-> q,
                    price |-> pr, portfolio_value |-> pv, positions |-> ps,
                    result |-> Approval(FALSE, 0, "")]

NextRisk == ApproveTrade

SpecRisk == InitRisk /\ [][NextRisk]_vars

\* classify_news alone: one call on any headline, summary and symbols.
RECURSIVE Texts(_)
Texts(n) == IF n = 0 THEN {<<>>} ELSE Texts(n - 1) \cup [1..n -> Words]

InitClassify ==
    /\ InitHistory
    /\ InitIdle
    /\ pendingFile = NoFile
    /\ seenFile = NoFile
    /\ pidFile = NoPidFile
    /\ dpc = [p \in Pids |-> "absent"]
    /\ task = [p \in Pids |-> NoTasks]
    /\ trade = NoTrade
    /\ \E h \in Texts(MaxHeadline), s \in Texts(MaxSummary), sy \in SymbolLists :
           classification = [pc |-> "start", headline |-> h, summary |-> s,
                             symbols |-> sy, text |-> <<>>, result |-> NewResult]

NextClassify ==
    \/ ClassifyStart
    \/ MacroCritical
    \/ MacroHigh
    \/ TickerCritical
    \/ TickerHigh
    \/ MatchTickers

SpecClassify == InitClassify /\ [][NextClassify]_vars

\* The start commands: news-daemon start issued MaxStarts times, direct
\* launches of the module, and the startup of the spawned processes.
InitStart ==
    /\ InitHistory
    /\ InitIdle
    /\ classification = NoClassification
    /\ trade = NoTrade
    /\ pendingFile = NoFile
    /\ seenFile = NoFile
    /\ pidFile = NoPidFile
    /\ dpc = [p \in Pids |-> "absent"]
    /\ task = [p \in Pids |-> NoTasks]

NextStart ==
    \/ \E s \in 1..MaxStarts : StartCheck(s)
    \/ \E s \in 1..MaxStarts : StartSpawn(s)
    \/ DirectLaunch
    \/ \E p \in Pids : RunLoadSeen(p)
    \/ \E p \in Pids : WritePidOpen(p)
    \/ \E p \in Pids : WritePid(p)

SpecStart == InitStart /\ [][NextStart]_vars

\* The life of a daemon: process 1 was spawned and starts up, runs its three
\* tasks, receives signals and shuts down; the stop command.
InitLife ==
    /\ InitHistory
    /\ InitIdle
    /\ classification = NoClassification
    /\ trade = NoTrade
    /\ pendingFile = NoFile
    /\ seenFile = NoFile
    /\ pidFile = NoPidFile
    /\ dpc = [p \in Pids |-> IF p = 1 THEN "boot" ELSE "absent"]
    /\ task = [p \in Pids |-> NoTasks]

DaemonStep(p) ==
    \/ RunLoadSeen(p)
    \/ WritePidOpen(p)
    \/ WritePid(p)
    \/ HandleSignal(p)
    \/ RunFinally(p)
    \/ RunUnlink(p)
    \/ \E creds \in BOOLEAN : AlpacaStart(p, creds)
    \/ AlpacaLoop(p)
    \/ AlpacaOpen(p)
    \/ \E awaited \in BOOLEAN : AlpacaHandshake(p, awaited)
    \/ \E awaited \in BOOLEAN : AlpacaConnected(p, awaited)
    \/ AlpacaError(p)
    \/ AlpacaBackoff(p)
    \/ AlpacaTimeout(p)
    \/ AlpacaRepoll(p)
    \/ RssLoop(p)
    \/ RssFeedDone(p)
    \/ \E key \in BOOLEAN : FinnhubStart(p, key)
    \/ FinnhubLoop(p)
    \/ FinnhubPollDone(p)

NextLife ==
    \/ \E p \in Pids : DaemonStep(p)
    \/ \E p \in Pids : ExternalSignal(p)
    \/ StopTerm
    \/ StopPollAlive
    \/ StopPollDead
    \/ StopKill
    \/ StopUnlink

SpecLife == InitLife /\ [][NextLife]_vars

\* The same with the scheduling the code relies on: a started stop_daemon
\* runs on; the event loop of a live daemon runs a signal handler that is
\* due and the daemon does not stall (its waits time out, its fetches
\* return).  Signals and the stop command itself need not come.
FairLife ==
    /\ WF_vars(StopPollAlive \/ StopPollDead \/ StopKill \/ StopUnlink)
    /\ WF_vars(\E p \in Pids : HandleSignal(p))
    /\ WF_vars(\E p \in Pids : DaemonStep(p))

SpecLifeFair == SpecLife /\ FairLife

\* ============================================================ properties
Quiescent == consumer.pc = "idle" /\ \A p \in Pids : addAlert[p].pc = "idle"
AppendedIds == {appendLog[i].alert.id : i \in 1..Len(appendLog)}
PoppedIds(i) == Ids(popLog[i].alerts)

\* C1: add_alert and pop_pending_alerts interleaved, every alert passed to
\* add_alert and not cut off by the capacity limit is returned by exactly one
\* pop_pending_alerts: no alert is returned by two calls, and once both
\* processes are between calls every alert is returned by a call, still in
\* the queue, or cut off by the capacity limit.
C1_EveryAlertPoppedOnce ==
    /\ \A i, j \in 1..Len(popLog) : i # j => PoppedIds(i) \cap PoppedIds(j) = {}
    /\ Quiescent =>
         \A id \in AppendedIds :
            \/ id \in evicted
            \/ id \in Ids(_load_pending(pendingFile))
            \/ \E i \in 1..Len(popLog) : id \in PoppedIds(i)

\* C2: every persist of the pending queue replaces the file atomically: a
\* _load_pending (of the consumer, of status / alerts, of add_alert) during a
\* write gets the complete previous queue or the complete new one, never an
\* empty or partial file.
C2_NoTornRead == ~torn

\* C3: after any sequence of add_alert calls (no pop_pending_alerts so far)
\* the queue holds at most PendingCap alerts, the most recently appended ones
\* in append order; PendingCap + 1 appends on an empty store leave PendingCap
\* entries, the first one absent, the last one present.
C3_QueueHoldsLastAppended ==
    /\ pendingFile.whole => Len(pendingFile.data) <= PendingCap
    /\ (Quiescent /\ popLog = <<>> /\ appendLog # <<>>) =>
         LET n == Len(appendLog)
             k == IF n <= PendingCap THEN n ELSE PendingCap
         IN /\ pendingFile.whole
            /\ Len(pendingFile.data) = k
            /\ \A i \in 1..k : pendingFile.data[i] = appendLog[n - k + i].alert

C3_Witness ==
    /\ Quiescent /\ popLog = <<>>
    /\ Len(appendLog) = PendingCap + 1
    /\ 1 \notin Ids(pendingFile.data)
    /\ PendingCap + 1 \in Ids(pendingFile.data)

\* C4: a pop_pending_alerts followed by another one, with no step of an
\* add_alert from the start of the first to the load of the second, returns
\* the empty list the second time.
C4_SecondPopEmpty ==
    \A i \in 1..Len(popLog) : popLog[i].quiet => popLog[i].alerts = <<>>

C4_Witness ==
    \E i \in 2..Len(popLog) :
        popLog[i].quiet /\ popLog[i - 1].alerts # <<>> /\ popLog[i].alerts = <<>>

\* C5: at every moment of a daemon run the seen cache (the set `seen` of
\* run_daemon) holds at most SeenCap fingerprints.
C5_SeenAtMostCap == \A p \in Pids : Cardinality(seen[p]) <= SeenCap

\* C6: the seen cache evicts in insertion order, in memory and in the file:
\* the file a running daemon saved holds, of the first n fingerprints it
\* inserted (n the number inserted at some save), the SeenCap inserted last,
\* not the first inserted ones, whatever their values.
C6_FileHoldsLastInserted ==
    \A p \in Pids :
        (dpc[p] = "running" /\ seenFile.whole /\ seenOrder[p] # <<>>) =>
            \E n \in 0..Len(seenOrder[p]) :
                Range(seenFile.data) = Range(Last(SubSeq(seenOrder[p], 1, n), SeenCap))

\* C7: recording a fingerprint is idempotent: after every check-and-record
\* the fingerprint is in the cache, no fingerprint left it, the cache grew by
\* at most one, and recording a fingerprint that is in the cache leaves the
\* cache as it is.
C7_RecordIdempotent ==
    [][\A p \in Pids :
         recorded'[p] # recorded[p] =>
            /\ recorded'[p].fp \in seen'[p]
            /\ seen[p] \subseteq seen'[p]
            /\ Cardinality(seen'[p]) <= Cardinality(seen[p]) + 1
            /\ (recorded'[p].fp \in seen[p] => seen'[p] = seen[p])]_vars

\* The second item delivered had the fingerprint of the first.
C7_Witness ==
    /\ recorded[1].n = 2
    /\ seenOrder[1] = <<recorded[1].fp>>
    /\ seen[1] = {recorded[1].fp}

\* C8: within one daemon run at most one alert is appended per fingerprint,
\* whichever adapters deliver items with it and however their passes
\* interleave.
C8_OneAlertPerFingerprint ==
    \A i, j \in 1..Len(appendLog) :
        (i # j /\ appendLog[i].pid = appendLog[j].pid) =>
            appendLog[i].alert.fp # appendLog[j].alert.fp

\* An urgent item was appended by one adapter and an item with its
\* fingerprint was then passed by another adapter.
C8_Witness ==
    /\ Len(appendLog) = 1
    /\ recorded[1].n = 2
    /\ recorded[1].fp = appendLog[1].alert.fp
    /\ owner[1] \notin {"none", appendLog[1].alert.source}

\* C9: no execution of start commands and launches leaves two daemon
\* processes running at the same time.
C9_SingleDaemon == Cardinality({p \in Pids : dpc[p] = "running"}) <= 1

\* C10: once daemon p caught a termination signal (stop_event is set), the
\* process does not end and the PID file is not removed before the three
\* tasks exited and run_daemon did its final _save_seen.
C10_GracefulShutdown ==
    \A p \in Pids :
        stop_event[p] =>
            /\ ~pidFile.exists => (AllDone(p) /\ flushed[p])
            /\ ~Alive(p) => (AllDone(p) /\ flushed[p])

\* A shutdown that completed: signal caught, tasks exited, the final flush
\* done, the PID file removed by the daemon.
C10_Witness ==
    /\ stop_event[1] /\ AllDone(1) /\ flushed[1]
    /\ dpc[1] = "exited" /\ ~pidFile.exists
    /\ stopCmd.pc = "idle"

\* C11: the delay slept after the N-th consecutive failure of the WebSocket
\* connection is min(2^(N-1), 60), and reconnect_delay is 1 again once a
\* connection streams.
C11_BackoffDelay ==
    \A p \in Pids :
        /\ task[p]["alpaca"] = "backoff" =>
             reconnect_delay[p] =
                (IF 2^(fails[p] - 1) <= 60 THEN 2^(fails[p] - 1) ELSE 60)
        /\ task[p]["alpaca"] = "streaming" => reconnect_delay[p] = 1

\* The sleep after the seventh consecutive failure: 60, not 64.
C11_Witness ==
    /\ task[1]["alpaca"] = "backoff"
    /\ fails[1] = 7
    /\ reconnect_delay[1] = 60

\* C12: the WebSocket task streams (and has reset reconnect_delay) only on a
\* connection whose three handshake reads returned the frames awaited: the
\* connection-established frame, the authenticated response, the
\* subscription acknowledgment.
C12_StreamsAfterHandshake ==
    \A p \in Pids : task[p]["alpaca"] = "streaming" => handshake_ok[p]

\* C13: stop_daemon delivers SIGTERM first and SIGKILL only after every poll
\* of the window found the process alive; having read a pid it returns with
\* the PID file absent; having read none it sends nothing and returns False;
\* and once started it returns.
C13_StopDaemon ==
    /\ [](/\ stopCmd.sent \in {<<>>, <<"SIGTERM">>, <<"SIGTERM", "SIGKILL">>}
          /\ Len(stopCmd.sent) = 2 => stopCmd.polls = StopPolls
          /\ (stopCmd.pc = "done" /\ stopCmd.pid # 0) => ~pidFile.exists
          /\ (stopCmd.pc = "done" /\ stopCmd.pid = 0) =>
                (stopCmd.sent = <<>> /\ ~stopCmd.result))
    /\ (stopCmd.pc \in {"polling", "unlink"} ~> stopCmd.pc = "done")

\* A stop that escalated: both signals delivered, the process killed, the
\* PID file removed.
C13_Witness ==
    /\ stopCmd.pc = "done"
    /\ stopCmd.sent = <<"SIGTERM", "SIGKILL">>
    /\ stopCmd.polls = StopPolls
    /\ dpc[stopCmd.pid] = "killed"
    /\ ~pidFile.exists

\* C14: an alert whose disk write failed is kept: once a later add_alert
\* has written the queue (no pop_pending_alerts so far), every alert passed
\* to add_alert and not cut off by the capacity limit is in the queue on
\* file.
C14_FailedAppendKept ==
    (/\ Quiescent /\ popLog = <<>> /\ appendLog # <<>>
     /\ appendLog[Len(appendLog)].alert.id \notin failed) =>
        \A id \in AppendedIds : id \in evicted \/ id \in Ids(_load_pending(pendingFile))

\* C15: an item that cannot be processed is skipped alone: the step that
\* passes it (an item is counted and no dedup record is made) leaves every
\* task where it is, the adapter still iterating the frame, feed or response.
C15_MalformedItemSkipped ==
    [][(nItems' # nItems /\ recorded' = recorded) =>
          (task' = task /\ \E p \in Pids : owner'[p] # "none")]_vars

\* C16: the failure of one source ends neither the daemon nor a task: a task
\* returns only at its credentials check or with stop_event set, the process
\* leaves its running state only with stop_event set or by being killed, and
\* a step of the RSS poll that ends a feed which is not the last one goes on
\* to the next feed of the same cycle and leaves every task where it is.
C16_SourceFailureContained ==
    [][\A p \in Pids :
          /\ (dpc[p] = "running" /\ dpc'[p] # "running") =>
                 (stop_event[p] \/ dpc'[p] = "killed")
          /\ \A a \in Adapters :
                 (dpc'[p] = "running" /\ task[p][a] # "done" /\ task'[p][a] = "done") =>
                     (stop_event[p] \/ task[p][a] = "start")
          /\ (task[p]["rss"] = "fetching" /\ feed'[p] # feed[p]
                /\ feed[p] < NumFeeds /\ ~stop_event[p]) =>
                 (feed'[p] = feed[p] + 1 /\ task' = task /\ dpc' = dpc)]_vars

\* The WebSocket failed (the task sleeps before it reconnects), the REST
\* source has no key (its task returned), and the RSS poll is at its second
\* feed: the daemon runs on, no stop requested.
C16_Witness ==
    /\ dpc[1] = "running" /\ ~stop_event[1] /\ ~sigterm[1]
    /\ task[1]["alpaca"] = "backoff" /\ fails[1] >= 1
    /\ task[1]["finnhub"] = "done"
    /\ task[1]["rss"] = "fetching" /\ feed[1] = 2

Rank(urgency) == CASE urgency = "low" -> 0 [] urgency = "high" -> 1 [] urgency = "critical" -> 2
HasKeyword(kws, text) == \E i \in DOMAIN kws : occurs(kws[i], text)

\* C17: within a classify_news call no tier lowers the urgency, and a text
\* with a macro-critical and a ticker-high keyword is returned critical.
C17_UrgencyOnlyRises ==
    /\ [][Rank(classification'.result.urgency) >= Rank(classification.result.urgency)]_vars
    /\ [](classification.pc = "returned" =>
            LET text == lower_all(classification.headline \o classification.summary)
            IN  (HasKeyword(MACRO_CRITICAL, text) /\ HasKeyword(TICKER_HIGH, text)) =>
                    classification.result.urgency = "critical")

\* "FOMC" in the headline and "upgrade" in the summary, returned critical.
C17_Witness ==
    /\ classification.pc = "returned"
    /\ classification.headline = <<"FOMC">> /\ classification.summary = <<"upgrade">>
    /\ classification.result.urgency = "critical"

\* C18: every keyword of the four tiers that occurs in the case-folded text
\* is in keywords_hit of the result returned.
C18_EveryKeywordHit ==
    classification.pc = "returned" =>
        LET text == lower_all(classification.headline \o classification.summary)
            kws == MACRO_CRITICAL \o MACRO_HIGH \o TICKER_CRITICAL \o TICKER_HIGH
        IN  \A i \in DOMAIN kws :
                occurs(kws[i], text) => occurs(kws[i], classification.result.keywords_hit)

\* C19: every alert in pending.json, in a queue being written and in a
\* queue popped has urgency critical or high.
C19_OnlyUrgentQueued ==
    /\ \A i \in DOMAIN pendingFile.data : pendingFile.data[i].urgency \in {"critical", "high"}
    /\ \A p \in Pids : \A i \in DOMAIN addAlert[p].pending :
           addAlert[p].pending[i].urgency \in {"critical", "high"}
    /\ \A i \in DOMAIN appendLog : appendLog[i].alert.urgency \in {"critical", "high"}

\* Two new items were passed, one of them below high: only the other one
\* is in the queue.
C19_Witness ==
    /\ nItems = 2 /\ seen[1] = {1, 2}
    /\ Len(appendLog) = 1
    /\ Quiescent /\ popLog = <<>>
    /\ Len(pendingFile.data) = 1 /\ pendingFile.data[1].fp = appendLog[1].alert.fp

\* C20: a status or alerts command leaves pending.json, seen.json and the
\* PID file as they are, and what pop_pending_alerts would load after the
\* command is what it would have loaded before.
C20_CommandsOnlyRead ==
    [][nReads' # nReads =>
          /\ pendingFile' = pendingFile /\ seenFile' = seenFile /\ pidFile' = pidFile
          /\ _load_pending(pendingFile') = _load_pending(pendingFile)]_vars

\* A command ran, and the two alerts appended were returned by one pop.
C20_Witness ==
    /\ nReads = 1
    /\ Len(appendLog) = 2
    /\ Len(popLog) = 1 /\ Len(popLog[1].alerts) = 2
    /\ Quiescent

Returned == trade.pc = "returned"
Buy == ~is_sell(trade.side)
Existing == existing_value(trade.ticker, trade.positions)
Cash == trade.portfolio_value - total_positions_value(trade.positions)
AlreadyHeld == \E i \in DOMAIN trade.positions : trade.positions[i].ticker = trade.ticker

\* C21: a sell is approved with the quantity requested, whatever the
\* portfolio value, the price and the positions held.
C21_SellApproved ==
    (Returned /\ trade.side \in {"sell", "SELL"}) =>
        (trade.result.approved /\ trade.result.sized_qty = trade.quantity)

\* A sell of a ticker not held, with max_open_positions positions held
\* that leave no cash: approved in full.
C21_Witness ==
    /\ Returned /\ trade.side = "SELL" /\ trade.ticker = "NEW"
    /\ trade.quantity = MaxQty /\ trade.price = 3
    /\ Len(trade.positions) = max_open_positions /\ Cash < 0
    /\ trade.result.approved /\ trade.result.sized_qty = MaxQty

\* C22: with max_open_positions positions held, a buy of a ticker not held
\* is rejected with quantity 0, and a buy of a ticker held is not rejected
\* for the number of positions.
C22_MaxPositions ==
    (Returned /\ Buy /\ Len(trade.positions) >= max_open_positions) =>
        IF AlreadyHeld
        THEN trade.result.reason # "max_positions"
        ELSE ~trade.result.approved /\ trade.result.sized_qty = 0

\* A buy of AAPL, held among max_open_positions positions, was approved.
C22_Witness ==
    /\ Returned /\ trade.side = "buy" /\ trade.ticker = "AAPL"
    /\ Len(trade.positions) = max_open_positions
    /\ AlreadyHeld
    /\ trade.result.approved /\ trade.result.sized_qty >= 1

\* C23: an approved buy at a positive price is sized to at most the
\* quantity requested, and the value held in the ticker plus the value of
\* the sized trade is at most max_position_pct of the portfolio value.
C23_PositionSizeLimit ==
    (Returned /\ Buy /\ trade.result.approved /\ trade.price > 0) =>
        /\ trade.result.sized_qty <= trade.quantity
        /\ 100 * (Existing + trade.result.sized_qty * trade.price)
               <= trade.portfolio_value * max_position_pct

\* A buy of 3 shares at 3 with a portfolio of 130 (limit 6.5) sized to 2.
C23_Witness ==
    /\ Returned /\ trade.side = "buy" /\ trade.portfolio_value = 130
    /\ trade.quantity = 3 /\ trade.price = 3
    /\ trade.result.approved /\ trade.result.sized_qty = 2
    /\ trade.result.reason = "sized_position"

\* C24: a buy whose requested value would leave the cash below
\* min_cash_pct of the portfolio value is not approved at the quantity
\* requested.
C24_CashReserve ==
    (Returned /\ Buy
       /\ 100 * (Cash - trade.quantity * trade.price) < trade.portfolio_value * min_cash_pct) =>
        ~(trade.result.approved /\ trade.result.sized_qty = trade.quantity)

\* A buy within the position limit that the cash reserve sized down.
C24_Witness ==
    /\ Returned /\ trade.side = "buy"
    /\ trade.result.approved /\ trade.result.reason = "sized_cash"
    /\ trade.result.sized_qty < trade.quantity

\* C30: after an approved buy the cash left (portfolio value, less the
\* value of all positions, less the value of the sized trade) is at least
\* min_cash_pct of the portfolio value.
C30_CashLeftAfterBuy ==
    (Returned /\ Buy /\ trade.result.approved) =>
        100 * (Cash - trade.result.sized_qty * trade.price)
            >= trade.portfolio_value * min_cash_pct

C26_NoNewWorkAfterStop ==
    [][\A p \in Pids : (stop_event[p] /\ dpc'[p] = "running") =>
          /\ task'[p]["alpaca"] = "connecting" => task[p]["alpaca"] = "connecting"
          /\ task'[p]["rss"] = "fetching" =>
                 (task[p]["rss"] = "fetching" /\ feed'[p] = feed[p])
          /\ task'[p]["finnhub"] = "fetching" => task[p]["finnhub"] = "fetching"]_vars

\* stop_event is set and the three tasks returned, the WebSocket task after
\* a failed connection that it did not reopen.
C26_Witness ==
    /\ dpc[1] = "running" /\ stop_event[1]
    /\ AllDone(1) /\ fails[1] >= 1 /\ feed[1] = 1

\* C27: matched_tickers of the result returned holds no ticker twice and
\* only tickers of the watchlist.
C27_MatchedTickersOrderedSet ==
    classification.pc = "returned" =>
        LET mt == classification.result.matched_tickers
        IN  /\ \A i, j \in DOMAIN mt : mt[i] = mt[j] => i = j
            /\ \A i \in DOMAIN mt : occurs(mt[i], DEFAULT_WATCHLIST)

\* C28: while a daemon that completed its startup runs, the PID file exists
\* and holds its pid.
C28_PidFileOfLiveDaemon ==
    \A p \in Pids : dpc[p] = "running" => read_pid(pidFile) = p

\* C29: a fingerprint is in `seen` before its alert is offered to the
\* store and stays there while the daemon runs: an alert is appended only
\* for a fingerprint that was not in `seen`, so an item that raised after
\* its fingerprint was recorded, or whose alert was not written, is not
\* appended when it comes again.
C29_OfferedAtMostOnce ==
    [][/\ \A p \in Pids : (dpc[p] = "running" /\ dpc'[p] = "running") => seen[p] \subseteq seen'[p]
       /\ Len(appendLog') > Len(appendLog) =>
              LET e == appendLog'[Len(appendLog')]
              IN  e.alert.fp \notin seen[e.pid] /\ e.alert.fp \in seen'[e.pid]]_vars

\* The write of the only alert appended failed, an item with its
\* fingerprint came again from another adapter and was passed: the queue
\* is empty.
C29_Witness ==
    /\ Len(appendLog) = 1 /\ appendLog[1].alert.id \in failed
    /\ recorded[1].n = 2 /\ recorded[1].fp = appendLog[1].alert.fp
    /\ owner[1] \notin {"none", appendLog[1].alert.source}
    /\ Quiescent /\ _load_pending(pendingFile) = <<>>

====
